---- MODULE Spec2Model ----
(***************************************************************************)
(* A model of navbat.py: the sqlite store (providers, services, queues,    *)
(* busy_times), the helper functions over it, and the aiogram handlers     *)
(* that drive it.  Every handler runs on one asyncio event loop and the    *)
(* sqlite calls are synchronous, so a handler is atomic up to its first    *)
(* await; an action below is one such atomic stretch of a handler.         *)
(*                                                                         *)
(* Text columns are modelled as tuples of one-character strings so that    *)
(* formatting (f"{h:02d}:{m:02d}", date.isoformat()), text equality and    *)
(* sqlite's BINARY collation in ORDER BY are computed, not assumed.        *)
(***************************************************************************)
EXTENDS Integers, Sequences, FiniteSets, TLC

VARIABLES
    providers,   \* rows of table providers
    services,    \* rows of table services
    queues,      \* rows of table queues
    busy_times,  \* rows of table busy_times
    seq,         \* sqlite_sequence: the last AUTOINCREMENT id of each table
    fsm,         \* aiogram FSM state of every user (MemoryStorage)
    fsm_data,    \* aiogram FSM data of every user (the busy date typed)
    awaiting,    \* register_finish tasks suspended in `await bot.get_me()`
    calling,     \* call_next tasks suspended in `await bot.send_message()`
    kb,          \* the inline keyboard of every client's bot message
    today,       \* date.today(), as a day number
    last,        \* what the last request did and answered
    history      \* the answers of the recorded queue requests, in order

vars == <<providers, services, queues, busy_times, seq, fsm, fsm_data,
          awaiting, calling, kb, today, last, history>>

----------------------------------------------------------------------------
(* Bounds of the model *)

MaxProviders == 2   \* provider rows ever inserted
MaxServices == 2    \* service rows ever inserted
MaxRows == 3        \* queue rows ever inserted
MaxBusy == 1        \* busy_times rows ever inserted
MaxDay == 1         \* days that pass
MaxAwait == 2       \* register_finish tasks suspended at once, per user

MaxBooked == 2      \* bookings: queue rows ever inserted
MaxMixed == 3       \* slot listing: marks blocked one by one
MaxLineRows == 3    \* walk-in line: queue rows ever inserted
MaxHistory == 7     \* walk-in line: requests recorded
MaxBlocks == 2      \* busy rows ever stored, where blocks are deleted
MaxReg == 3         \* client flow: provider rows ever inserted
MaxFlowServices == 3 \* client flow: service rows ever inserted
MaxFlowRows == 2    \* client flow: queue rows ever inserted

Owners == {1, 2}
Clients == {3, 4}
WalkInClients == {3, 4, 5}
PressedDates == {1, 2}   \* the buttons of a date keyboard that are pressed
PressedSlots == {1, 2}   \* the buttons of a slot keyboard that are pressed
ServiceNames == {"Haircut", "Shave"}

----------------------------------------------------------------------------
(* Text *)

Digit == <<"0", "1", "2", "3", "4", "5", "6", "7", "8", "9">>

\* f"{n:02d}" for 0 <= n < 100
Fmt2(n) == <<Digit[(n \div 10) + 1], Digit[(n % 10) + 1]>>

\* f"{n:04d}" for 0 <= n < 10000
Fmt4(n) == Fmt2(n \div 100) \o Fmt2(n % 100)

\* ord(c) for the characters that occur
Ord(c) ==
    CASE c = "-" -> 45
      [] c = "0" -> 48 [] c = "1" -> 49 [] c = "2" -> 50 [] c = "3" -> 51
      [] c = "4" -> 52 [] c = "5" -> 53 [] c = "6" -> 54 [] c = "7" -> 55
      [] c = "8" -> 56 [] c = "9" -> 57
      [] c = ":" -> 58

\* sqlite's BINARY collation: a < b bytewise, a proper prefix first
RECURSIVE TextLess(_, _)
TextLess(a, b) ==
    IF b = <<>> THEN FALSE
    ELSE IF a = <<>> THEN TRUE
    ELSE IF Head(a) = Head(b) THEN TextLess(Tail(a), Tail(b))
    ELSE Ord(Head(a)) < Ord(Head(b))

\* SQL NULL, and Python None
NULL == <<"NULL">>

\* ORDER BY x ASC: NULL sorts before every text
ColLess(a, b) ==
    IF a = NULL THEN b # NULL
    ELSE IF b = NULL THEN FALSE
    ELSE TextLess(a, b)

\* Python truthiness of an Optional[str]
Truthy(s) == s # NULL /\ s # <<>>

----------------------------------------------------------------------------
(* Dates and the slot grid *)

\* date.today() + timedelta(days = n - today): day 0 is 2025-08-30
Calendar(n) ==
    IF n <= 1 THEN [y |-> 2025, m |-> 8, d |-> 30 + n]
    ELSE [y |-> 2025, m |-> 9, d |-> n - 1]

\* date.isoformat()
IsoFormat(c) == Fmt4(c.y) \o <<"-">> \o Fmt2(c.m) \o <<"-">> \o Fmt2(c.d)

\* next_n_dates(n): the dates of today and the n - 1 days after it
next_n_dates(n) == [i \in 1..n |-> IsoFormat(Calendar(today + i - 1))]

NDates == 7

\* f"{h:02d}:{m:02d}"
TimeStr(h, m) == Fmt2(h) \o <<":">> \o Fmt2(m)

\* for h in range(9, 18): slots.append(h:00); slots.append(h:30)
RECURSIVE HourSlots(_, _)
HourSlots(h, stop) ==
    IF h >= stop THEN <<>>
    ELSE <<TimeStr(h, 0), TimeStr(h, 30)>> \o HourSlots(h + 1, stop)

FirstHour == 9
StopHour == 18

\* slots = slots[:-1]
AllButLast(s) == SubSeq(s, 1, Len(s) - 1)

SlotsFull == HourSlots(FirstHour, StopHour)

Slots == AllButLast(HourSlots(FirstHour, StopHour))

----------------------------------------------------------------------------
(* The store: rows and queries *)

\* fetchone() finding no row
None == [id |-> 0]

Max(S) == CHOOSE x \in S : \A y \in S : y <= x

\* the row of S with the lowest rowid: the first row of a table scan
FirstRow(S) == CHOOSE r \in S : \A q \in S : r.id <= q.id

\* SELECT id, name, ref_code FROM providers WHERE owner_id=?  (fetchone)
get_provider_by_owner(owner_id) ==
    LET rows == {p \in providers : p.owner_id = owner_id}
    IN  IF rows = {} THEN None ELSE FirstRow(rows)

\* SELECT id, name FROM providers WHERE ref_code=?  (ref_code is UNIQUE;
\* the row's id stands for its uuid token)
get_provider_by_ref(ref_code) ==
    LET rows == {p \in providers : p.id = ref_code}
    IN  IF rows = {} THEN None ELSE FirstRow(rows)

\* SELECT owner_id FROM providers WHERE id=?
get_provider_owner(provider_id) ==
    LET rows == {p \in providers : p.id = provider_id}
    IN  IF rows = {} THEN 0 ELSE FirstRow(rows).owner_id

\* SELECT id, name FROM services WHERE provider_id=?
get_services(provider_id) == {s \in services : s.provider_id = provider_id}

\* SELECT provider_id, name FROM services WHERE id=?
get_service(svc_id) ==
    LET rows == {s \in services : s.id = svc_id}
    IN  IF rows = {} THEN None ELSE FirstRow(rows)

\* the rows of one provider's queue
QueueOf(provider_id) == {q \in queues : q.provider_id = provider_id}

WalkIns(provider_id) == {q \in QueueOf(provider_id) : q.position > 0}

Scheduled(provider_id) == {q \in QueueOf(provider_id) : q.position = 0}

\* get_booked_slots without the busy_times half
QueueSlotsOnly(provider_id, date) ==
    {q.time : q \in {r \in queues : r.provider_id = provider_id
                                     /\ r.date = date /\ r.time # NULL}}

\* get_booked_slots: the times of the provider's queue rows and busy rows
\* of that date
get_booked_slots(provider_id, date) ==
    LET booked == {q.time : q \in {r \in queues : r.provider_id = provider_id
                                      /\ r.date = date /\ r.time # NULL}}
        busy == {b.time : b \in {r \in busy_times : r.provider_id = provider_id
                                      /\ r.date = date}}
    IN  booked \cup busy

\* [s for s in slots if s not in blocked]
RECURSIVE NotIn(_, _)
NotIn(s, blocked) ==
    IF s = <<>> THEN <<>>
    ELSE IF Head(s) \in blocked THEN NotIn(Tail(s), blocked)
    ELSE <<Head(s)>> \o NotIn(Tail(s), blocked)

\* the slots client_pick_date offers
Available(provider_id, date) == NotIn(Slots, get_booked_slots(provider_id, date))

\* SELECT COUNT(*) FROM queues WHERE provider_id=? AND position>0, plus one
NextPosByCount(provider_id) == Cardinality(WalkIns(provider_id)) + 1

\* SELECT COALESCE(MAX(position),0) FROM queues, of every provider and
\* of scheduled rows too, plus one
NextPosAnyRow(provider_id) == Max({q.position : q \in queues} \cup {0}) + 1

\* SELECT COALESCE(MAX(position),0) FROM queues
\*   WHERE provider_id=? AND position>0, plus one
NextPos(provider_id) ==
    Max({q.position : q \in WalkIns(provider_id)} \cup {0}) + 1

\* the FOREIGN KEY constraints of an INSERT INTO queues
QueueKeysOk(provider_id, service_id) ==
    /\ \E p \in providers : p.id = provider_id
    /\ \E s \in services : s.id = service_id

\* add_to_queue taking the walk-in branch whatever date and time it is given
NewWalkInRow(provider_id, user_id, service_id, date, time) ==
    [id |-> seq.queues + 1, provider_id |-> provider_id,
     user_id |-> user_id, service_id |-> service_id,
     position |-> Max({q.position : q \in WalkIns(provider_id)} \cup {0}) + 1,
     date |-> NULL, time |-> NULL]

\* add_to_queue numbering every row and storing the date and time given
NewNumberedRow(provider_id, user_id, service_id, date, time) ==
    [id |-> seq.queues + 1, provider_id |-> provider_id,
     user_id |-> user_id, service_id |-> service_id,
     position |-> Max({q.position : q \in WalkIns(provider_id)} \cup {0}) + 1,
     date |-> date, time |-> time]

\* add_to_queue: the row it inserts
NewQueueRow(provider_id, user_id, service_id, date, time) ==
    IF Truthy(date) /\ Truthy(time)
    THEN [id |-> seq.queues + 1, provider_id |-> provider_id,
          user_id |-> user_id, service_id |-> service_id, position |-> 0,
          date |-> date, time |-> time]
    ELSE [id |-> seq.queues + 1, provider_id |-> provider_id,
          user_id |-> user_id, service_id |-> service_id,
          position |-> NextPos(provider_id), date |-> NULL, time |-> NULL]

\* ... ORDER BY position DESC LIMIT 1
LastWalkIn(provider_id) ==
    CHOOSE q \in WalkIns(provider_id) :
        \A r \in WalkIns(provider_id) : r.position <= q.position

\* SELECT ... WHERE provider_id=? AND position>0 ORDER BY position ASC LIMIT 1
\* (rows of equal position come in rowid order)
FirstWalkIn(provider_id) ==
    CHOOSE q \in WalkIns(provider_id) :
        \A r \in WalkIns(provider_id) :
            \/ q.position < r.position
            \/ q.position = r.position /\ q.id <= r.id

\* ORDER BY date, time ASC: does row a sort before row b
SortsBefore(a, b) ==
    \/ ColLess(a.date, b.date)
    \/ a.date = b.date /\ ColLess(a.time, b.time)
    \/ a.date = b.date /\ a.time = b.time /\ a.id <= b.id

\* ... ORDER BY time ASC LIMIT 1, the date left out
FirstByTimeOnly(provider_id) ==
    CHOOSE q \in QueueOf(provider_id) :
        \A r \in QueueOf(provider_id) :
            \/ ColLess(q.time, r.time)
            \/ q.time = r.time /\ q.id <= r.id

\* SELECT ... FROM queues WHERE provider_id=? ORDER BY date, time ASC LIMIT 1
FirstByDateTime(provider_id) ==
    CHOOSE q \in QueueOf(provider_id) :
        \A r \in QueueOf(provider_id) : SortsBefore(q, r)

\* DELETE FROM providers WHERE id=? with PRAGMA foreign_keys=ON: the rows
\* that remain after the ON DELETE CASCADE of services, queues, busy_times
RowsAfterDelete(provider_id) ==
    LET gone == {s.id : s \in get_services(provider_id)}
    IN  [providers |-> {p \in providers : p.id # provider_id},
         services |-> {s \in services : s.provider_id # provider_id},
         queues |-> {q \in queues : q.provider_id # provider_id
                                     /\ q.service_id \notin gone},
         busy_times |-> {b \in busy_times : b.provider_id # provider_id}]

----------------------------------------------------------------------------
(* Parsing what a provider types *)

IsDigit(c) == \E i \in 1..10 : Digit[i] = c

DigitValue(c) == (CHOOSE i \in 1..10 : Digit[i] = c) - 1

IsDigits(s) == Len(s) > 0 /\ \A i \in 1..Len(s) : IsDigit(s[i])

\* int(s) of a string of digits
RECURSIVE ParseInt(_)
ParseInt(s) ==
    IF s = <<>> THEN 0
    ELSE 10 * ParseInt(SubSeq(s, 1, Len(s) - 1)) + DigitValue(s[Len(s)])

\* s.split(sep)
RECURSIVE Split(_, _)
Split(s, sep) ==
    IF \A i \in 1..Len(s) : s[i] # sep THEN <<s>>
    ELSE LET k == CHOOSE i \in 1..Len(s) :
                      s[i] = sep /\ \A j \in 1..(i - 1) : s[j] # sep
         IN  <<SubSeq(s, 1, k - 1)>> \o Split(SubSeq(s, k + 1, Len(s)), sep)

DaysIn(y, m) ==
    IF m \in {4, 6, 9, 11} THEN 30
    ELSE IF m # 2 THEN 31
    ELSE IF y % 4 = 0 /\ (y % 100 # 0 \/ y % 400 = 0) THEN 29 ELSE 28

\* datetime.strptime(txt, "%Y-%m-%d") does not raise: %Y is four digits,
\* %m and %d are one or two digits
StrptimeOk(txt) ==
    LET f == Split(txt, "-")
    IN  /\ Len(f) = 3
        /\ IsDigits(f[1]) /\ Len(f[1]) = 4
        /\ IsDigits(f[2]) /\ Len(f[2]) <= 2
        /\ IsDigits(f[3]) /\ Len(f[3]) <= 2
        /\ ParseInt(f[1]) >= 1
        /\ ParseInt(f[2]) \in 1..12
        /\ ParseInt(f[3]) >= 1
        /\ ParseInt(f[3]) <= DaysIn(ParseInt(f[1]), ParseInt(f[2]))

\* h, m = map(int, txt.split(":")); assert 0 <= h < 24 and 0 <= m < 60
TimeOk(txt) ==
    LET f == Split(txt, ":")
    IN  /\ Len(f) = 2
        /\ IsDigits(f[1]) /\ IsDigits(f[2])
        /\ ParseInt(f[1]) < 24 /\ ParseInt(f[2]) < 60

\* time_str = f"{h:02d}:{m:02d}"
TimeNorm(txt) ==
    LET f == Split(txt, ":") IN TimeStr(ParseInt(f[1]), ParseInt(f[2]))

\* what the modelled providers type as a busy date and a busy time
BusyDateTexts ==
    {IsoFormat(Calendar(0)),
     <<"2", "0", "2", "5", "-", "8", "-", "3", "0">>,
     <<"0", "8", "-", "3", "0">>}

BusyTimeTexts ==
    {<<"0", "9", ":", "0", "0">>,
     <<"9", ":", "3", "0">>,
     <<"2", "4", ":", "0", "0">>}

----------------------------------------------------------------------------
(* Requests and their answers *)

Reply(op, user, result, pid, row, slots) ==
    [op |-> op, user |-> user, result |-> result, pid |-> pid, row |-> row,
     slots |-> slots]

Idle == "None"
RegisterProvider_name == "RegisterProvider:name"
AddService_name == "AddService:name"
BusyTimeStates_date == "BusyTimeStates:date"
BusyTimeStates_time == "BusyTimeStates:time"

\* aiogram tries the message handlers in the order they are registered:
\* a handler filtered on a state, register_finish or add_service_save, takes
\* every text that no earlier handler takes, the menu buttons registered
\* after it included
ReachesMenu(u) == fsm[u] \notin {RegisterProvider_name, AddService_name}

\* await state.clear()
Cleared(f, u) == [f EXCEPT ![u] = Idle]
ClearedData(d, u) == [d EXCEPT ![u] = NULL]

NoKeyboard == [kind |-> "none"]

Init ==
    /\ providers = {} /\ services = {} /\ queues = {} /\ busy_times = {}
    /\ seq = [providers |-> 0, services |-> 0, queues |-> 0, busy_times |-> 0]
    /\ fsm = [u \in Owners |-> Idle]
    /\ fsm_data = [u \in Owners |-> NULL]
    /\ awaiting = [u \in Owners |-> 0]
    /\ calling = [u \in Owners |-> {}]
    /\ kb = [u \in Clients |-> NoKeyboard]
    /\ today = 0
    /\ last = Reply("start", 0, "", 0, None, <<>>)
    /\ history = <<>>

----------------------------------------------------------------------------
(* Directory: the provider's handlers *)

\* register_start
RegisterStart(u) ==
    /\ IF get_provider_by_owner(u) # None
       THEN /\ last' = Reply("register_start", u, "AlreadyRegistered",
                             get_provider_by_owner(u).id, None, <<>>)
            /\ UNCHANGED fsm
       ELSE /\ fsm' = [fsm EXCEPT ![u] = RegisterProvider_name]
            /\ last' = Reply("register_start", u, "AskName", 0, None, <<>>)
    /\ UNCHANGED <<providers, services, queues, busy_times, seq, fsm_data,
                   awaiting, calling, kb, today, history>>

\* create_provider: INSERT INTO providers(owner_id, name, ref_code)
create_provider(owner_id) ==
    /\ providers' = providers \cup
                       {[id |-> seq.providers + 1, owner_id |-> owner_id]}
    /\ seq' = [seq EXCEPT !.providers = @ + 1]

\* register_finish, up to `await bot.get_me()`: the provider row is
\* inserted, the FSM state is still RegisterProvider.name
RegisterFinish(u) ==
    /\ fsm[u] = RegisterProvider_name
    /\ create_provider(u)
    /\ awaiting' = [awaiting EXCEPT ![u] = @ + 1]
    /\ last' = Reply("register_finish", u, "Registered", seq.providers + 1,
                     None, <<>>)
    /\ UNCHANGED <<services, queues, busy_times, fsm, fsm_data, calling, kb,
                   today, history>>

\* register_finish, after `await bot.get_me()`: state.clear()
RegisterFinishResume(u) ==
    /\ awaiting[u] > 0
    /\ awaiting' = [awaiting EXCEPT ![u] = @ - 1]
    /\ fsm' = Cleared(fsm, u)
    /\ fsm_data' = ClearedData(fsm_data, u)
    /\ last' = Reply("register_finish", u, "Cleared", 0, None, <<>>)
    /\ UNCHANGED <<providers, services, queues, busy_times, seq, calling, kb,
                   today, history>>

\* register_finish when bot.get_me() raises: the handler ends there
RegisterFinishFail(u) ==
    /\ awaiting[u] > 0
    /\ awaiting' = [awaiting EXCEPT ![u] = @ - 1]
    /\ last' = Reply("register_finish", u, "Raised", 0, None, <<>>)
    /\ UNCHANGED <<providers, services, queues, busy_times, seq, fsm,
                   fsm_data, calling, kb, today, history>>

\* add_service_start
AddServiceStart(u) ==
    /\ fsm[u] # RegisterProvider_name
    /\ IF get_provider_by_owner(u) = None
       THEN /\ last' = Reply("add_service_start", u, "NotRegistered", 0,
                             None, <<>>)
            /\ UNCHANGED fsm
       ELSE /\ fsm' = [fsm EXCEPT ![u] = AddService_name]
            /\ last' = Reply("add_service_start", u, "AskName",
                             get_provider_by_owner(u).id, None, <<>>)
    /\ UNCHANGED <<providers, services, queues, busy_times, seq, fsm_data,
                   awaiting, calling, kb, today, history>>

\* add_service on a table without UNIQUE(provider_id, name)
add_service_unconstrained(provider_id, name) == TRUE

\* add_service: False on the IntegrityError of UNIQUE(provider_id, name)
add_service_ok(provider_id, name) ==
    ~ \E s \in services : s.provider_id = provider_id /\ s.name = name

\* add_service_save
AddServiceSave(u, name) ==
    /\ fsm[u] = AddService_name
    /\ LET p == get_provider_by_owner(u)
       IN  IF p = None
           THEN /\ last' = Reply("add_service_save", u, "NotRegistered", 0,
                                 None, <<>>)
                /\ UNCHANGED <<services, seq>>
           ELSE IF add_service_ok(p.id, name)
           THEN /\ services' = services \cup
                       {[id |-> seq.services + 1, provider_id |-> p.id,
                         name |-> name]}
                /\ seq' = [seq EXCEPT !.services = @ + 1]
                /\ last' = Reply("add_service_save", u, "Added", p.id,
                                 [id |-> seq.services + 1, name |-> name],
                                 <<>>)
           ELSE /\ last' = Reply("add_service_save", u, "DuplicateService",
                                 p.id, [id |-> 0, name |-> name], <<>>)
                /\ UNCHANGED <<services, seq>>
    /\ fsm' = Cleared(fsm, u)
    /\ fsm_data' = ClearedData(fsm_data, u)
    /\ UNCHANGED <<providers, queues, busy_times, awaiting, calling, kb, today,
                   history>>

\* unregister: delete_provider
Unregister(u) ==
    /\ ReachesMenu(u)
    /\ LET p == get_provider_by_owner(u)
       IN  IF p = None
           THEN /\ last' = Reply("unregister", u, "NotRegistered", 0, None,
                                 <<>>)
                /\ UNCHANGED <<providers, services, queues, busy_times>>
           ELSE /\ providers' = RowsAfterDelete(p.id).providers
                /\ services' = RowsAfterDelete(p.id).services
                /\ queues' = RowsAfterDelete(p.id).queues
                /\ busy_times' = RowsAfterDelete(p.id).busy_times
                /\ last' = Reply("unregister", u, "Unregistered", p.id, None,
                                 <<>>)
    /\ UNCHANGED <<seq, fsm, fsm_data, awaiting, calling, kb, today, history>>

----------------------------------------------------------------------------
(* Queue store and dispatch *)

\* add_to_queue(provider_id, user_id, service_id): the walk-in branch.  No
\* handler of navbat.py calls it; the caller resolves the provider from the
\* service row, as client_pick_service does for a booking.
add_walk_in(u, service_id) ==
    /\ get_service(service_id) # None
    /\ LET pid == get_service(service_id).provider_id
           row == NewQueueRow(pid, u, service_id, NULL, NULL)
       IN  /\ QueueKeysOk(pid, service_id)
           /\ queues' = queues \cup {row}
           /\ seq' = [seq EXCEPT !.queues = @ + 1]
           /\ last' = Reply("add_to_queue", u, "Enqueued", pid, row, <<>>)
    /\ UNCHANGED <<providers, services, busy_times, fsm, fsm_data, awaiting,
                   calling, kb, today>>

EnqueueWalkIn(u, service_id) ==
    add_walk_in(u, service_id) /\ UNCHANGED history

\* add_to_queue, its answer recorded in the history
EnqueueWalkInRecorded(u, service_id) ==
    /\ add_walk_in(u, service_id)
    /\ history' = Append(history, last')

\* call_next without its second pop_next_in_queue, include_scheduled=True
call_next_walk_ins(u) ==
    /\ ReachesMenu(u)
    /\ LET p == get_provider_by_owner(u)
       IN  IF p = None
           THEN /\ last' = Reply("call_next", u, "NotRegistered", 0, None,
                                 <<>>)
                /\ UNCHANGED queues
           ELSE IF WalkIns(p.id) # {}
           THEN /\ queues' = queues \ {FirstWalkIn(p.id)}
                /\ last' = Reply("call_next", u, "Dispatched", p.id,
                                 FirstWalkIn(p.id), <<>>)
           ELSE /\ last' = Reply("call_next", u, "EmptyQueue", p.id, None,
                                 <<>>)
                /\ UNCHANGED queues
    /\ UNCHANGED <<providers, services, busy_times, seq, fsm, fsm_data,
                   awaiting, calling, kb, today>>

\* call_next deleting the rows WHERE user_id=? of the client it picked
call_next_by_user(u) ==
    /\ ReachesMenu(u)
    /\ LET p == get_provider_by_owner(u)
       IN  IF p = None
           THEN /\ last' = Reply("call_next", u, "NotRegistered", 0, None,
                                 <<>>)
                /\ UNCHANGED queues
           ELSE IF QueueOf(p.id) # {}
           THEN LET row == IF WalkIns(p.id) # {} THEN FirstWalkIn(p.id)
                           ELSE FirstByDateTime(p.id)
                IN  /\ queues' = {q \in queues : q.user_id # row.user_id}
                    /\ last' = Reply("call_next", u, "Dispatched", p.id, row,
                                     <<>>)
           ELSE /\ last' = Reply("call_next", u, "EmptyQueue", p.id, None,
                                 <<>>)
                /\ UNCHANGED queues
    /\ UNCHANGED <<providers, services, busy_times, seq, fsm, fsm_data,
                   awaiting, calling, kb, today>>

\* call_next, up to its first await: both pop_next_in_queue calls
call_next(u) ==
    /\ ReachesMenu(u)
    /\ LET p == get_provider_by_owner(u)
       IN  IF p = None
           THEN /\ last' = Reply("call_next", u, "NotRegistered", 0, None,
                                 <<>>)
                /\ UNCHANGED queues
           ELSE IF WalkIns(p.id) # {}
           THEN /\ queues' = queues \ {FirstWalkIn(p.id)}
                /\ last' = Reply("call_next", u, "Dispatched", p.id,
                                 FirstWalkIn(p.id), <<>>)
           ELSE IF QueueOf(p.id) # {}
           THEN /\ queues' = queues \ {FirstByDateTime(p.id)}
                /\ last' = Reply("call_next", u, "Dispatched", p.id,
                                 FirstByDateTime(p.id), <<>>)
           ELSE /\ last' = Reply("call_next", u, "EmptyQueue", p.id, None,
                                 <<>>)
                /\ UNCHANGED queues
    /\ UNCHANGED <<providers, services, busy_times, seq, fsm, fsm_data,
                   awaiting, calling, kb, today>>

CallNext(u) == call_next(u) /\ UNCHANGED history

\* call_next, its answer recorded in the history
CallNextRecorded(u) ==
    /\ call_next(u)
    /\ history' = Append(history, last')

\* call_next, up to `await bot.send_message(user_id, ...)`: the row is
\* popped and the task waits for Telegram; with no provider or no row the
\* handler answers and ends
CallNextPop(u) ==
    /\ ReachesMenu(u)
    /\ LET p == get_provider_by_owner(u)
       IN  IF p = None
           THEN /\ last' = Reply("call_next", u, "NotRegistered", 0, None,
                                 <<>>)
                /\ UNCHANGED <<queues, calling>>
           ELSE IF QueueOf(p.id) = {}
           THEN /\ last' = Reply("call_next", u, "EmptyQueue", p.id, None,
                                 <<>>)
                /\ UNCHANGED <<queues, calling>>
           ELSE LET row == IF WalkIns(p.id) # {} THEN FirstWalkIn(p.id)
                           ELSE FirstByDateTime(p.id)
                IN  /\ queues' = queues \ {row}
                    /\ calling' = [calling EXCEPT ![u] = @ \cup {row}]
                    /\ last' = Reply("call_next", u, "Popped", p.id, row,
                                     <<>>)
    /\ UNCHANGED <<providers, services, busy_times, seq, fsm, fsm_data,
                   awaiting, kb, today, history>>

\* call_next after `await bot.send_message()` returned: the client has the
\* message, the provider is answered (the last field: the clients messaged)
CallNextNotified(u, row) ==
    /\ row \in calling[u]
    /\ calling' = [calling EXCEPT ![u] = @ \ {row}]
    /\ last' = Reply("call_next", u, "Dispatched", row.provider_id, row,
                     <<row.user_id>>)
    /\ UNCHANGED <<providers, services, queues, busy_times, seq, fsm,
                   fsm_data, awaiting, kb, today, history>>

\* the popped row put back and the error raised when send_message fails
CallNextRolledBack(u, row) ==
    /\ row \in calling[u]
    /\ calling' = [calling EXCEPT ![u] = @ \ {row}]
    /\ queues' = queues \cup {row}
    /\ last' = Reply("call_next", u, "Raised", row.provider_id, row, <<>>)
    /\ UNCHANGED <<providers, services, busy_times, seq, fsm, fsm_data,
                   awaiting, kb, today, history>>

\* call_next after `await bot.send_message()` raised: except Exception:
\* pass, and the provider is answered all the same
CallNextUnreachable(u, row) ==
    /\ row \in calling[u]
    /\ calling' = [calling EXCEPT ![u] = @ \ {row}]
    /\ last' = Reply("call_next", u, "Dispatched", row.provider_id, row,
                     <<>>)
    /\ UNCHANGED <<providers, services, queues, busy_times, seq, fsm,
                   fsm_data, awaiting, kb, today, history>>

\* clear_queue deleting only the rows WHERE position>0
clear_walk_ins(u) ==
    /\ ReachesMenu(u)
    /\ LET p == get_provider_by_owner(u)
       IN  IF p = None
           THEN /\ last' = Reply("clear_queue", u, "NotRegistered", 0, None,
                                 <<>>)
                /\ UNCHANGED queues
           ELSE /\ queues' = {q \in queues : q.provider_id # p.id
                                              \/ q.position = 0}
                /\ last' = Reply("clear_queue", u, "Cleared", p.id, None,
                                 <<>>)
    /\ UNCHANGED <<providers, services, busy_times, seq, fsm, fsm_data,
                   awaiting, calling, kb, today>>

\* clear_queue
clear_queue(u) ==
    /\ ReachesMenu(u)
    /\ LET p == get_provider_by_owner(u)
       IN  IF p = None
           THEN /\ last' = Reply("clear_queue", u, "NotRegistered", 0, None,
                                 <<>>)
                /\ UNCHANGED queues
           ELSE /\ queues' = {q \in queues : q.provider_id # p.id}
                /\ last' = Reply("clear_queue", u, "Cleared", p.id, None,
                                 <<>>)
    /\ UNCHANGED <<providers, services, busy_times, seq, fsm, fsm_data,
                   awaiting, calling, kb, today>>

ClearQueue(u) == clear_queue(u) /\ UNCHANGED history

\* clear_queue, its answer recorded in the history
ClearQueueRecorded(u) ==
    /\ clear_queue(u)
    /\ history' = Append(history, last')

\* ORDER BY position ASC, date, time ASC: does row a come before row b
\* (rows equal in all three come in rowid order)
ListedBefore(a, b) ==
    \/ a.position < b.position
    \/ a.position = b.position /\ ColLess(a.date, b.date)
    \/ a.position = b.position /\ a.date = b.date /\ ColLess(a.time, b.time)
    \/ a.position = b.position /\ a.date = b.date /\ a.time = b.time
       /\ a.id <= b.id

\* show_queue: SELECT user_id, service_id, position, date, time FROM queues
\*   WHERE provider_id=? ORDER BY position ASC, date, time ASC
ListAll(provider_id) ==
    LET rows == QueueOf(provider_id)
    IN  [i \in 1..Cardinality(rows) |->
            CHOOSE r \in rows :
                Cardinality({q \in rows : q # r /\ ListedBefore(q, r)}) = i - 1]

\* get_queue: ... WHERE q.provider_id=? AND q.position > 0 ORDER BY q.position
get_queue(provider_id) ==
    LET rows == WalkIns(provider_id)
    IN  [i \in 1..Cardinality(rows) |->
            CHOOSE r \in rows :
                Cardinality({q \in rows : q # r /\ ListedBefore(q, r)}) = i - 1]

\* show_queue, up to its first await: the rows it lists, in order
ShowQueue(u) ==
    /\ ReachesMenu(u)
    /\ LET p == get_provider_by_owner(u)
       IN  IF p = None
           THEN last' = Reply("show_queue", u, "NotRegistered", 0, None, <<>>)
           ELSE IF ListAll(p.id) = <<>>
           THEN last' = Reply("show_queue", u, "EmptyQueue", p.id, None, <<>>)
           ELSE last' = Reply("show_queue", u, "Listed", p.id, None,
                              ListAll(p.id))
    /\ UNCHANGED <<providers, services, queues, busy_times, seq, fsm,
                   fsm_data, awaiting, calling, kb, today, history>>

----------------------------------------------------------------------------
(* Busy blocks *)

\* admin_busy_start
AdminBusyStart(u) ==
    /\ ReachesMenu(u)
    /\ IF get_provider_by_owner(u) = None
       THEN /\ last' = Reply("admin_busy_start", u, "NotRegistered", 0, None,
                             <<>>)
            /\ UNCHANGED fsm
       ELSE /\ fsm' = [fsm EXCEPT ![u] = BusyTimeStates_date]
            /\ last' = Reply("admin_busy_start", u, "AskDate",
                             get_provider_by_owner(u).id, None, <<>>)
    /\ UNCHANGED <<providers, services, queues, busy_times, seq, fsm_data,
                   awaiting, calling, kb, today, history>>

\* admin_busy_date
AdminBusyDate(u, txt) ==
    /\ fsm[u] = BusyTimeStates_date
    /\ IF StrptimeOk(txt)
       THEN /\ fsm_data' = [fsm_data EXCEPT ![u] = txt]
            /\ fsm' = [fsm EXCEPT ![u] = BusyTimeStates_time]
            /\ last' = Reply("admin_busy_date", u, "AskTime", 0, None, <<>>)
       ELSE /\ last' = Reply("admin_busy_date", u, "BadDate", 0, None, <<>>)
            /\ UNCHANGED <<fsm, fsm_data>>
    /\ UNCHANGED <<providers, services, queues, busy_times, seq, awaiting,
                   calling, kb, today, history>>

\* admin_busy_time: add_busy_time
AdminBusyTime(u, txt) ==
    /\ fsm[u] = BusyTimeStates_time
    /\ IF ~ TimeOk(txt)
       THEN /\ last' = Reply("admin_busy_time", u, "BadTime", 0, None, <<>>)
            /\ UNCHANGED <<busy_times, seq, fsm, fsm_data>>
       ELSE LET p == get_provider_by_owner(u)
            IN  /\ IF p = None
                   THEN /\ last' = Reply("admin_busy_time", u,
                                         "NotRegistered", 0, None, <<>>)
                        /\ UNCHANGED <<busy_times, seq>>
                   ELSE LET row == [id |-> seq.busy_times + 1,
                                    provider_id |-> p.id,
                                    date |-> fsm_data[u],
                                    time |-> TimeNorm(txt)]
                        IN  /\ busy_times' = busy_times \cup {row}
                            /\ seq' = [seq EXCEPT !.busy_times = @ + 1]
                            /\ last' = Reply("admin_busy_time", u, "Blocked",
                                             p.id, row, <<>>)
                /\ fsm' = Cleared(fsm, u)
                /\ fsm_data' = ClearedData(fsm_data, u)
    /\ UNCHANGED <<providers, services, queues, awaiting, calling, kb, today,
                   history>>

\* ORDER BY date, time of get_busy_times; rows equal on both in rowid order
BusyBefore(a, b) ==
    \/ TextLess(a.date, b.date)
    \/ a.date = b.date /\ TextLess(a.time, b.time)
    \/ a.date = b.date /\ a.time = b.time /\ a.id <= b.id

\* get_busy_times: SELECT id, date, time FROM busy_times
\*   WHERE provider_id=? ORDER BY date,time
get_busy_times(provider_id) ==
    LET rows == {b \in busy_times : b.provider_id = provider_id}
    IN  [i \in 1..Cardinality(rows) |->
            CHOOSE r \in rows :
                Cardinality({q \in rows : q # r /\ BusyBefore(q, r)}) = i - 1]

\* remove_busy_time: DELETE FROM busy_times WHERE id=?
remove_busy_time(busy_id) == {b \in busy_times : b.id # busy_id}

\* admin_list_busy: registered after the handlers of BusyTimeStates, which
\* take the button's text as a date or a time; one delbusy:<id>:<pid>
\* button for each row listed
AdminListBusy(u) ==
    /\ fsm[u] = Idle
    /\ LET p == get_provider_by_owner(u)
       IN  IF p = None
           THEN last' = Reply("admin_list_busy", u, "NotRegistered", 0, None,
                              <<>>)
           ELSE IF get_busy_times(p.id) = <<>>
           THEN last' = Reply("admin_list_busy", u, "NoBusy", p.id, None,
                              <<>>)
           ELSE last' = Reply("admin_list_busy", u, "Listed", p.id, None,
                              get_busy_times(p.id))
    /\ UNCHANGED <<providers, services, queues, busy_times, seq, fsm,
                   fsm_data, awaiting, calling, kb, today, history>>

\* admin_delete_busy, up to its first await, on the callback data
\* delbusy:<busy_id>:<pid>. Telegram hands the bot the data the client
\* sent, which need not be the data of a button the bot made, so both
\* numbers are the request's. The listing the handler ends with reads the
\* store for the bot's own user id and writes nothing.
AdminDeleteBusy(u, busy_id, pid) ==
    /\ IF get_provider_owner(pid) # u
       THEN /\ last' = Reply("admin_delete_busy", u, "Forbidden", pid,
                             [id |-> busy_id], <<>>)
            /\ UNCHANGED busy_times
       ELSE /\ busy_times' = remove_busy_time(busy_id)
            /\ last' = Reply("admin_delete_busy", u, "Deleted", pid,
                             [id |-> busy_id], <<>>)
    /\ UNCHANGED <<providers, services, queues, seq, fsm, fsm_data, awaiting,
                   calling, kb, today, history>>

----------------------------------------------------------------------------
(* The client's flow: /start <ref>, svc:, date:, book: *)

\* on_start with a payload: the keyboard of the provider's services
ClientStart(u, ref_code) ==
    /\ LET p == get_provider_by_ref(ref_code)
       IN  IF p = None
           THEN /\ last' = Reply("on_start", u, "ProviderNotFound", 0, None,
                                 <<>>)
                /\ UNCHANGED kb
           ELSE IF get_services(p.id) = {}
           THEN /\ last' = Reply("on_start", u, "NoServices", p.id, None,
                                 <<>>)
                /\ UNCHANGED kb
           ELSE /\ kb' = [kb EXCEPT ![u] =
                            [kind |-> "svc",
                             svc_ids |-> {s.id : s \in get_services(p.id)}]]
                /\ last' = Reply("on_start", u, "Services", p.id, None, <<>>)
    /\ UNCHANGED <<providers, services, queues, busy_times, seq, fsm,
                   fsm_data, awaiting, calling, today, history>>

\* client_pick_service: the keyboard of the next seven dates
ClientPickService(u, svc_id) ==
    /\ kb[u].kind = "svc"
    /\ svc_id \in kb[u].svc_ids
    /\ LET row == get_service(svc_id)
       IN  IF row = None
           THEN /\ last' = Reply("client_pick_service", u, "ServiceNotFound",
                                 0, None, <<>>)
                /\ UNCHANGED kb
           ELSE /\ kb' = [kb EXCEPT ![u] =
                            [kind |-> "date", provider_id |-> row.provider_id,
                             svc_id |-> svc_id, dates |-> next_n_dates(NDates)]]
                /\ last' = Reply("client_pick_service", u, "Dates",
                                 row.provider_id, None, <<>>)
    /\ UNCHANGED <<providers, services, queues, busy_times, seq, fsm,
                   fsm_data, awaiting, calling, today, history>>

\* client_pick_date: the keyboard of the available slots of the date
ClientPickDate(u, i) ==
    /\ kb[u].kind = "date"
    /\ i \in 1..Len(kb[u].dates)
    /\ LET pid == kb[u].provider_id
           sel_date == kb[u].dates[i]
           available == Available(pid, sel_date)
       IN  IF available = <<>>
           THEN /\ kb' = [kb EXCEPT ![u] = NoKeyboard]
                /\ last' = Reply("client_pick_date", u, "NoSlots", pid,
                                 [id |-> 0, date |-> sel_date], available)
           ELSE /\ kb' = [kb EXCEPT ![u] =
                            [kind |-> "book", provider_id |-> pid,
                             svc_id |-> kb[u].svc_id, date |-> sel_date,
                             slots |-> available]]
                /\ last' = Reply("client_pick_date", u, "Slots", pid,
                                 [id |-> 0, date |-> sel_date], available)
    /\ UNCHANGED <<providers, services, queues, busy_times, seq, fsm,
                   fsm_data, awaiting, calling, today, history>>

\* the re-check of client_book_slot left out
NeverBlocked(provider_id, sel_date, sel_time) == FALSE

\* client_book_slot: sel_time in get_booked_slots(provider_id, sel_date)
IsBlocked(provider_id, sel_date, sel_time) ==
    sel_time \in get_booked_slots(provider_id, sel_date)

\* client_book_slot, up to its first await, on the callback data
\* book:<provider_id>:<svc_id>:<sel_date>:<sel_time>
client_book_slot(u, pid, svc_id, sel_date, sel_time) ==
    /\ LET row == NewQueueRow(pid, u, svc_id, sel_date, sel_time)
       IN  IF IsBlocked(pid, sel_date, sel_time)
           THEN /\ last' = Reply("client_book_slot", u, "SlotConflict", pid,
                                 [id |-> 0, date |-> sel_date,
                                  time |-> sel_time], <<>>)
                /\ UNCHANGED <<queues, seq, kb>>
           ELSE IF ~ QueueKeysOk(pid, svc_id)
           THEN /\ last' = Reply("client_book_slot", u, "IntegrityError",
                                 pid, [id |-> 0, date |-> sel_date,
                                       time |-> sel_time], <<>>)
                /\ UNCHANGED <<queues, seq, kb>>
           ELSE /\ queues' = queues \cup {row}
                /\ seq' = [seq EXCEPT !.queues = @ + 1]
                /\ kb' = [kb EXCEPT ![u] = NoKeyboard]
                /\ last' = Reply("client_book_slot", u, "Booked", pid, row,
                                 <<>>)
    /\ UNCHANGED <<providers, services, busy_times, fsm, fsm_data, awaiting,
                   calling, today, history>>

\* client_book_slot on the press of a button of the slot keyboard that the
\* client has on screen
ClientBookSlot(u, i) ==
    /\ kb[u].kind = "book"
    /\ i \in 1..Len(kb[u].slots)
    /\ client_book_slot(u, kb[u].provider_id, kb[u].svc_id, kb[u].date,
                        kb[u].slots[i])

\* client_book_slot on a callback query whose data the client wrote: the
\* handler takes any data that starts with book: and splits into two
\* integers, a date and a time, whether or not the bot made such a button
ClientBookData(u, provider_id, svc_id, sel_date, sel_time) ==
    client_book_slot(u, provider_id, svc_id, sel_date, sel_time)

\* midnight passes
NextDay ==
    /\ today' = today + 1
    /\ last' = Reply("midnight", 0, "", 0, None, <<>>)
    /\ UNCHANGED <<providers, services, queues, busy_times, seq, fsm,
                   fsm_data, awaiting, calling, kb, history>>

----------------------------------------------------------------------------
(* Which requests insert a row: the bounds below hold back only these *)

AddsService(u, name) ==
    /\ get_provider_by_owner(u) # None
    /\ add_service_ok(get_provider_by_owner(u).id, name)

AddsBusy(u, txt) == TimeOk(txt) /\ get_provider_by_owner(u) # None

BooksRow(u, i) ==
    /\ kb[u].kind = "book"
    /\ i \in 1..Len(kb[u].slots)
    /\ ~ IsBlocked(kb[u].provider_id, kb[u].date, kb[u].slots[i])
    /\ QueueKeysOk(kb[u].provider_id, kb[u].svc_id)

BooksData(provider_id, svc_id, sel_date, sel_time) ==
    /\ ~ IsBlocked(provider_id, sel_date, sel_time)
    /\ QueueKeysOk(provider_id, svc_id)

----------------------------------------------------------------------------
(* The whole bot, from an empty store *)

Next ==
    \/ \E u \in Owners : RegisterStart(u)
    \/ \E u \in Owners :
          seq.providers < MaxProviders /\ awaiting[u] < MaxAwait
          /\ RegisterFinish(u)
    \/ \E u \in Owners : RegisterFinishResume(u)
    \/ \E u \in Owners : RegisterFinishFail(u)
    \/ \E u \in Owners : AddServiceStart(u)
    \/ \E u \in Owners, name \in ServiceNames :
          (AddsService(u, name) => seq.services < MaxServices)
          /\ AddServiceSave(u, name)
    \/ \E u \in Owners : Unregister(u)
    \/ \E u \in Clients, s \in 1..MaxServices :
          seq.queues < MaxRows /\ EnqueueWalkIn(u, s)
    \/ \E u \in Owners : ShowQueue(u)
    \/ \E u \in Owners : CallNext(u)
    \/ \E u \in Owners : ClearQueue(u)
    \/ \E u \in Owners : AdminBusyStart(u)
    \/ \E u \in Owners, txt \in BusyDateTexts : AdminBusyDate(u, txt)
    \/ \E u \in Owners, txt \in BusyTimeTexts :
          (AddsBusy(u, txt) => seq.busy_times < MaxBusy)
          /\ AdminBusyTime(u, txt)
    \/ \E u \in Clients, r \in 1..MaxProviders : ClientStart(u, r)
    \/ \E u \in Clients, s \in 1..MaxServices : ClientPickService(u, s)
    \/ \E u \in Clients, i \in PressedDates : ClientPickDate(u, i)
    \/ \E u \in Clients, i \in PressedSlots :
          (BooksRow(u, i) => seq.queues < MaxRows) /\ ClientBookSlot(u, i)
    \/ \E u \in Clients, p \in 1..MaxProviders, s \in 1..MaxServices :
          (BooksData(p, s, IsoFormat(Calendar(0)), Slots[1])
             => seq.queues < MaxRows)
          /\ ClientBookData(u, p, s, IsoFormat(Calendar(0)), Slots[1])
    \/ \E u \in Owners : AdminListBusy(u)
    \/ \E u \in Owners, busy_id \in 1..MaxBusy, pid \in 1..MaxProviders :
          AdminDeleteBusy(u, busy_id, pid)
    \/ today < MaxDay /\ NextDay

Spec == Init /\ [][Next]_vars

----------------------------------------------------------------------------
(* A store that holds the given providers and services and nothing else:   *)
(* the state after these providers registered and added these services     *)

Configured(provs, svcs) ==
    /\ providers = provs /\ services = svcs
    /\ queues = {} /\ busy_times = {}
    /\ seq = [providers |-> Cardinality(provs), services |-> Cardinality(svcs),
              queues |-> 0, busy_times |-> 0]
    /\ fsm = [u \in Owners |-> Idle]
    /\ fsm_data = [u \in Owners |-> NULL]
    /\ awaiting = [u \in Owners |-> 0]
    /\ calling = [u \in Owners |-> {}]
    /\ kb = [u \in Clients |-> NoKeyboard]
    /\ today = 0
    /\ last = Reply("start", 0, "", 0, None, <<>>)
    /\ history = <<>>

OneProvider == {[id |-> 1, owner_id |-> 1]}
OneService == {[id |-> 1, provider_id |-> 1, name |-> "Haircut"]}

TwoProviders == {[id |-> 1, owner_id |-> 1], [id |-> 2, owner_id |-> 2]}
TwoServices == {[id |-> 1, provider_id |-> 1, name |-> "Haircut"],
                [id |-> 2, provider_id |-> 2, name |-> "Haircut"]}

----------------------------------------------------------------------------
(* The directory, from an empty store: registration, services, unregister  *)

DirectoryNext ==
    \/ \E u \in Owners : RegisterStart(u)
    \/ \E u \in Owners :
          seq.providers < MaxProviders /\ awaiting[u] < MaxAwait
          /\ RegisterFinish(u)
    \/ \E u \in Owners : RegisterFinishResume(u)
    \/ \E u \in Owners : RegisterFinishFail(u)
    \/ \E u \in Owners : AddServiceStart(u)
    \/ \E u \in Owners, name \in ServiceNames :
          (AddsService(u, name) => seq.services < MaxServices)
          /\ AddServiceSave(u, name)
    \/ \E u \in Owners : Unregister(u)

SpecDirectory == Init /\ [][DirectoryNext]_vars

----------------------------------------------------------------------------
(* The walk-in line of one provider, every request recorded *)

LineNext ==
    \/ \E u \in WalkInClients :
          seq.queues < MaxLineRows /\ Len(history) < MaxHistory
          /\ EnqueueWalkInRecorded(u, 1)
    \/ Len(history) < MaxHistory /\ CallNextRecorded(1)
    \/ Len(history) < MaxHistory /\ ClearQueueRecorded(1)

SpecLine == Configured(OneProvider, OneService) /\ [][LineNext]_vars

----------------------------------------------------------------------------
(* The queues of two providers: walk-ins and dispatch at both, bookings at *)
(* the first                                                               *)

QueueNext ==
    \/ \E u \in {4}, s \in 1..2 :
          seq.queues < MaxRows /\ EnqueueWalkIn(u, s)
    \/ \E u \in Owners : CallNext(u)
    \/ \E u \in Owners : ClearQueue(u)
    \/ \E u \in {3} : ClientStart(u, 1)
    \/ \E u \in {3} : ClientPickService(u, 1)
    \/ \E u \in {3}, i \in PressedDates : ClientPickDate(u, i)
    \/ \E u \in {3}, i \in PressedSlots :
          (BooksRow(u, i) => seq.queues < MaxRows) /\ ClientBookSlot(u, i)

SpecQueue == Configured(TwoProviders, TwoServices) /\ [][QueueNext]_vars

----------------------------------------------------------------------------
(* The queue of one provider as the days pass *)

CalendarNext ==
    \/ \E u \in {4} : seq.queues < MaxRows /\ EnqueueWalkIn(u, 1)
    \/ CallNext(1)
    \/ \E u \in {3} : ClientStart(u, 1)
    \/ \E u \in {3} : ClientPickService(u, 1)
    \/ \E u \in {3}, i \in PressedDates : ClientPickDate(u, i)
    \/ \E u \in {3}, i \in PressedSlots :
          (BooksRow(u, i) => seq.queues < MaxRows) /\ ClientBookSlot(u, i)
    \/ today < MaxDay /\ NextDay

SpecCalendar == Configured(OneProvider, OneService) /\ [][CalendarNext]_vars

----------------------------------------------------------------------------
(* Two clients booking at one provider *)

RaceNext ==
    \/ \E u \in Clients : ClientStart(u, 1)
    \/ \E u \in Clients : ClientPickService(u, 1)
    \/ \E u \in Clients, i \in PressedDates : ClientPickDate(u, i)
    \/ \E u \in Clients, i \in PressedSlots :
          (BooksRow(u, i) => seq.queues < MaxBooked) /\ ClientBookSlot(u, i)

SpecRace == Configured(TwoProviders, TwoServices) /\ [][RaceNext]_vars

----------------------------------------------------------------------------
(* Two clients booking today at a provider who blocks a time *)

\* what the provider types: today's date, and 9:00
TypedDate == IsoFormat(Calendar(0))
TypedTime == <<"9", ":", "0", "0">>

BookNext ==
    \/ \E u \in Clients : ClientStart(u, 1)
    \/ \E u \in Clients : ClientPickService(u, 1)
    \/ \E u \in Clients : ClientPickDate(u, 1)
    \/ \E u \in Clients, i \in PressedSlots :
          (BooksRow(u, i) => seq.queues < MaxBooked) /\ ClientBookSlot(u, i)
    \/ AdminBusyStart(1)
    \/ AdminBusyDate(1, TypedDate)
    \/ (AddsBusy(1, TypedTime) => seq.busy_times < MaxBusy)
       /\ AdminBusyTime(1, TypedTime)

SpecBook == Configured(TwoProviders, TwoServices) /\ [][BookNext]_vars

----------------------------------------------------------------------------
(* One client booking at a provider who blocks a time and dispatches *)

SlotsNext ==
    \/ ClientStart(3, 1)
    \/ ClientPickService(3, 1)
    \/ \E i \in PressedDates : ClientPickDate(3, i)
    \/ \E i \in PressedSlots :
          (BooksRow(3, i) => seq.queues < MaxBooked) /\ ClientBookSlot(3, i)
    \/ AdminBusyStart(1)
    \/ AdminBusyDate(1, TypedDate)
    \/ (AddsBusy(1, TypedTime) => seq.busy_times < MaxBusy)
       /\ AdminBusyTime(1, TypedTime)
    \/ CallNext(1)

SpecSlots == Configured(TwoProviders, TwoServices) /\ [][SlotsNext]_vars

----------------------------------------------------------------------------
(* Unregistering: two providers with services and queue rows, the first    *)
(* with bookings and a busy row                                            *)

CascadeNext ==
    \/ \E s \in 1..2 : seq.queues < MaxRows /\ EnqueueWalkIn(4, s)
    \/ ClientStart(3, 1)
    \/ ClientPickService(3, 1)
    \/ ClientPickDate(3, 1)
    \/ (BooksRow(3, 1) => seq.queues < MaxRows) /\ ClientBookSlot(3, 1)
    \/ AdminBusyStart(1)
    \/ AdminBusyDate(1, TypedDate)
    \/ (AddsBusy(1, TypedTime) => seq.busy_times < MaxBusy)
       /\ AdminBusyTime(1, TypedTime)
    \/ \E u \in Owners : Unregister(u)

SpecCascade == Configured(TwoProviders, TwoServices) /\ [][CascadeNext]_vars

----------------------------------------------------------------------------
(* The slot listing over a provider's blocked times: the store holds busy  *)
(* rows of today for any of the first MaxMixed marks of the day, and for   *)
(* all of the later marks or none of them                                  *)

BusyRowsAt(marks) ==
    {[id |-> i, provider_id |-> 1, date |-> TypedDate, time |-> SlotsFull[i]] :
        i \in marks}

AvailInit ==
    /\ providers = OneProvider /\ services = OneService /\ queues = {}
    /\ \E early \in SUBSET (1..MaxMixed) :
          \E late \in {{}, (MaxMixed + 1)..Len(SlotsFull)} :
              busy_times = BusyRowsAt(early \cup late)
    /\ seq = [providers |-> 1, services |-> 1, queues |-> 0,
              busy_times |-> Len(SlotsFull)]
    /\ fsm = [u \in Owners |-> Idle]
    /\ fsm_data = [u \in Owners |-> NULL]
    /\ awaiting = [u \in Owners |-> 0]
    /\ calling = [u \in Owners |-> {}]
    /\ kb = [u \in Clients |-> NoKeyboard]
    /\ today = 0
    /\ last = Reply("start", 0, "", 0, None, <<>>)
    /\ history = <<>>

AvailNext ==
    \/ ClientStart(3, 1)
    \/ ClientPickService(3, 1)
    \/ \E i \in PressedDates : ClientPickDate(3, i)
    \/ \E i \in PressedSlots :
          (BooksRow(3, i) => seq.queues < MaxBooked) /\ ClientBookSlot(3, i)

SpecAvail == AvailInit /\ [][AvailNext]_vars

----------------------------------------------------------------------------
(* The listing of one provider's queue: walk-ins and bookings *)

ListingNext ==
    \/ seq.queues < MaxRows /\ EnqueueWalkIn(4, 1)
    \/ ClientStart(3, 1)
    \/ ClientPickService(3, 1)
    \/ \E i \in PressedDates : ClientPickDate(3, i)
    \/ \E i \in PressedSlots :
          (BooksRow(3, i) => seq.queues < MaxRows) /\ ClientBookSlot(3, i)
    \/ ShowQueue(1)

SpecListing == Configured(OneProvider, OneService) /\ [][ListingNext]_vars

----------------------------------------------------------------------------
(* Dispatch with the client's notification as a step of its own *)

NotifyNext ==
    \/ seq.queues < MaxRows /\ EnqueueWalkIn(4, 1)
    \/ ClientStart(3, 1)
    \/ ClientPickService(3, 1)
    \/ ClientPickDate(3, 1)
    \/ \E i \in PressedSlots :
          (BooksRow(3, i) => seq.queues < MaxRows) /\ ClientBookSlot(3, i)
    \/ CallNextPop(1)
    \/ \E row \in calling[1] : CallNextNotified(1, row)
    \/ \E row \in calling[1] : CallNextUnreachable(1, row)

SpecNotify == Configured(OneProvider, OneService) /\ [][NotifyNext]_vars

----------------------------------------------------------------------------
(* Clearing: two providers with walk-ins, the first with bookings and a    *)
(* busy row                                                                *)

ClearNext ==
    \/ \E v \in 1..2 : seq.queues < MaxRows /\ EnqueueWalkIn(4, v)
    \/ ClientStart(3, 1)
    \/ ClientPickService(3, 1)
    \/ ClientPickDate(3, 1)
    \/ (BooksRow(3, 1) => seq.queues < MaxRows) /\ ClientBookSlot(3, 1)
    \/ AdminBusyStart(1)
    \/ AdminBusyDate(1, TypedDate)
    \/ (AddsBusy(1, TypedTime) => seq.busy_times < MaxBusy)
       /\ AdminBusyTime(1, TypedTime)
    \/ \E u \in Owners : ClearQueue(u)

SpecClear == Configured(TwoProviders, TwoServices) /\ [][ClearNext]_vars

----------------------------------------------------------------------------
(* Dispatch: two providers with walk-ins, the first with bookings and a    *)
(* busy row                                                                *)

DispatchNext ==
    \/ \E v \in 1..2 : seq.queues < MaxRows /\ EnqueueWalkIn(4, v)
    \/ ClientStart(3, 1)
    \/ ClientPickService(3, 1)
    \/ ClientPickDate(3, 1)
    \/ (BooksRow(3, 1) => seq.queues < MaxRows) /\ ClientBookSlot(3, 1)
    \/ AdminBusyStart(1)
    \/ AdminBusyDate(1, TypedDate)
    \/ (AddsBusy(1, TypedTime) => seq.busy_times < MaxBusy)
       /\ AdminBusyTime(1, TypedTime)
    \/ \E u \in Owners : CallNext(u)

SpecDispatch == Configured(TwoProviders, TwoServices) /\ [][DispatchNext]_vars

----------------------------------------------------------------------------
(* Draining one provider's queue: walk-ins and bookings come in, a bounded *)
(* number of them, and the provider keeps pressing the call-next button    *)

DrainNext ==
    \/ seq.queues < MaxRows /\ EnqueueWalkIn(4, 1)
    \/ ClientStart(3, 1)
    \/ ClientPickService(3, 1)
    \/ \E i \in PressedDates : ClientPickDate(3, i)
    \/ \E i \in PressedSlots :
          (BooksRow(3, i) => seq.queues < MaxRows) /\ ClientBookSlot(3, i)
    \/ CallNext(1)

SpecDrain ==
    /\ Configured(OneProvider, OneService)
    /\ [][DrainNext]_vars
    /\ WF_vars(CallNext(1))

----------------------------------------------------------------------------
(* Busy blocks of two providers: both owners add blocks, list them, and    *)
(* send delbusy: requests with any block id and any provider id            *)

DeleteNext ==
    \/ \E u \in Owners : AdminBusyStart(u)
    \/ \E u \in Owners : AdminBusyDate(u, TypedDate)
    \/ \E u \in Owners :
          (AddsBusy(u, TypedTime) => seq.busy_times < MaxBlocks)
          /\ AdminBusyTime(u, TypedTime)
    \/ \E u \in Owners : AdminListBusy(u)
    \/ \E u \in Owners, busy_id \in 1..MaxBlocks, pid \in 1..MaxProviders :
          AdminDeleteBusy(u, busy_id, pid)

SpecDelete == Configured(TwoProviders, {}) /\ [][DeleteNext]_vars

----------------------------------------------------------------------------
(* The client's flow against a directory that changes under it: providers  *)
(* unregister, register again and add services while a client holds the    *)
(* keyboards of the flow, and sends book: requests of its own making       *)

FlowNext ==
    \/ \E u \in Owners : RegisterStart(u)
    \/ \E u \in Owners :
          seq.providers < MaxReg /\ awaiting[u] < MaxAwait - 1
          /\ RegisterFinish(u)
    \/ \E u \in Owners : RegisterFinishResume(u)
    \/ \E u \in Owners : AddServiceStart(u)
    \/ \E u \in Owners :
          (AddsService(u, "Haircut") => seq.services < MaxFlowServices)
          /\ AddServiceSave(u, "Haircut")
    \/ \E u \in Owners : Unregister(u)
    \/ \E r \in 1..MaxReg : ClientStart(3, r)
    \/ \E s \in 1..MaxFlowServices : ClientPickService(3, s)
    \/ ClientPickDate(3, 1)
    \/ (BooksRow(3, 1) => seq.queues < MaxFlowRows) /\ ClientBookSlot(3, 1)
    \/ \E p \in 1..MaxReg, s \in 1..MaxFlowServices :
          (BooksData(p, s, TypedDate, Slots[1]) => seq.queues < MaxFlowRows)
          /\ ClientBookData(3, p, s, TypedDate, Slots[1])

SpecFlow == Configured(TwoProviders, TwoServices) /\ [][FlowNext]_vars

----------------------------------------------------------------------------
(* Blocking and unblocking a time: the owner adds busy rows for 09:00 of   *)
(* today, the same time more than once too, and deletes rows by the        *)
(* buttons of the listing, while a client books from the slot keyboard     *)

BlockNext ==
    \/ AdminBusyStart(1)
    \/ AdminBusyDate(1, TypedDate)
    \/ (AddsBusy(1, TypedTime) => seq.busy_times < MaxBlocks)
       /\ AdminBusyTime(1, TypedTime)
    \/ AdminListBusy(1)
    \/ \E busy_id \in 1..MaxBlocks : AdminDeleteBusy(1, busy_id, 1)
    \/ ClientStart(3, 1)
    \/ ClientPickService(3, 1)
    \/ ClientPickDate(3, 1)
    \/ (BooksRow(3, 1) => seq.queues < MaxBooked) /\ ClientBookSlot(3, 1)

SpecBlock == Configured(OneProvider, OneService) /\ [][BlockNext]_vars

----------------------------------------------------------------------------
(* Claims *)

Enqueues(h) == h.op = "add_to_queue" /\ h.result = "Enqueued"

DispatchesWalkIn(h) ==
    h.op = "call_next" /\ h.result = "Dispatched" /\ h.row.position > 0

\* C1: the positions that successive add_to_queue walk-in calls return for
\* one provider are strictly increasing over the provider's lifetime, pops
\* and clears in between included.
C1_PositionsNeverReused ==
    \A i, j \in DOMAIN history :
        (i < j /\ Enqueues(history[i]) /\ Enqueues(history[j])
         /\ history[i].pid = history[j].pid)
        => history[i].row.position < history[j].row.position

\* where in the history a row was enqueued
EnqueuedAt(row) ==
    CHOOSE k \in DOMAIN history :
        Enqueues(history[k]) /\ history[k].row = row

\* C9: walk-ins are served first-in first-out: when call_next returns a
\* walk-in, every walk-in of that provider enqueued before it has already
\* been returned by an earlier call_next or removed by an earlier
\* clear_queue.
C9_WalkInsFifo ==
    \A j \in DOMAIN history :
        DispatchesWalkIn(history[j]) =>
            \A k \in 1..(EnqueuedAt(history[j].row) - 1) :
                (Enqueues(history[k]) /\ history[k].pid = history[j].pid)
                => \E i \in (k + 1)..(j - 1) :
                       \/ /\ DispatchesWalkIn(history[i])
                          /\ history[i].row = history[k].row
                       \/ /\ history[i].op = "clear_queue"
                          /\ history[i].pid = history[j].pid

\* C9, the scenario: A, B, C enqueued into an empty queue got positions
\* 1, 2, 3 and four call_next returned A, B, C and then EmptyQueue.
C9_Scenario ==
    /\ Len(history) = 7
    /\ \A k \in 1..3 :
          /\ Enqueues(history[k])
          /\ history[k].user = 2 + k
          /\ history[k].row.position = k
    /\ \A k \in 1..3 :
          /\ DispatchesWalkIn(history[3 + k])
          /\ history[3 + k].row.user_id = 2 + k
    /\ history[7].op = "call_next" /\ history[7].result = "EmptyQueue"

\* C8: every owner owns at most one provider row.
C8_OneProviderPerOwner ==
    \A o \in Owners : Cardinality({p \in providers : p.owner_id = o}) <= 1


\* C2: whenever the provider has a walk-in entry, call_next dispatches and
\* removes the walk-in with the lowest position and removes no scheduled
\* entry, whatever the scheduled entries' dates and times.
C2_WalkInFirst ==
    [][(last'.op = "call_next" /\ WalkIns(last'.pid) # {}) =>
          /\ last'.result = "Dispatched"
          /\ last'.row \in WalkIns(last'.pid)
          /\ \A w \in WalkIns(last'.pid) : last'.row.position <= w.position
          /\ queues' = queues \ {last'.row}
          /\ \A q \in queues : q.position = 0 => q \in queues']_vars

\* C2, its case: a walk-in was dispatched while the provider held a
\* scheduled entry and a walk-in further down the line.
C2_Witness ==
    /\ last.op = "call_next" /\ last.result = "Dispatched"
    /\ last.row.position > 0
    /\ Scheduled(last.pid) # {}
    /\ \E w \in WalkIns(last.pid) : w.position > last.row.position

\* the calendar date and the time of day a text stands for, as numbers
DateKey(txt) ==
    LET f == Split(txt, "-")
    IN  ParseInt(f[1]) * 10000 + ParseInt(f[2]) * 100 + ParseInt(f[3])

TimeKey(txt) ==
    LET f == Split(txt, ":") IN ParseInt(f[1]) * 60 + ParseInt(f[2])

NotLater(a, b) ==
    \/ DateKey(a.date) < DateKey(b.date)
    \/ DateKey(a.date) = DateKey(b.date) /\ TimeKey(a.time) <= TimeKey(b.time)

\* C10: with no walk-in and at least one scheduled entry, call_next returns
\* and removes the scheduled entry with the smallest (date, time) of all the
\* provider's scheduled entries, past ones included; with no entry at all
\* it answers EmptyQueue and removes nothing.
C10_EarliestScheduled ==
    [][last'.op = "call_next" =>
          /\ (WalkIns(last'.pid) = {} /\ Scheduled(last'.pid) # {}) =>
                /\ last'.result = "Dispatched"
                /\ last'.row \in Scheduled(last'.pid)
                /\ \A q \in Scheduled(last'.pid) : NotLater(last'.row, q)
                /\ queues' = queues \ {last'.row}
          /\ (last'.pid # 0 /\ QueueOf(last'.pid) = {}) =>
                /\ last'.result = "EmptyQueue"
                /\ queues' = queues]_vars

\* C10, its case: the entry dispatched is of a date before today, and an
\* entry booked before it, for a later date, stays in the queue.
C10_Witness ==
    /\ last.op = "call_next" /\ last.result = "Dispatched"
    /\ last.row.position = 0
    /\ DateKey(last.row.date) < DateKey(IsoFormat(Calendar(today)))
    /\ \E q \in Scheduled(last.pid) :
          q.id < last.row.id /\ DateKey(q.date) > DateKey(last.row.date)

Range(s) == {s[i] : i \in DOMAIN s}

\* the scheduled entries of provider p that hold time t of date d
Holders(p, d, t) ==
    {q \in queues : q.provider_id = p /\ q.position = 0
                    /\ q.date = d /\ q.time = t}

\* the busy blocks of provider p that hold time t of date d
Blocks(p, d, t) ==
    {b \in busy_times : b.provider_id = p /\ b.date = d /\ b.time = t}

\* C3: a provider never holds two scheduled entries with the same date and
\* time; a booking request either succeeds, and is then the only holder of
\* its slot, or fails with SlotConflict, adding nothing, because another
\* entry holds the slot.
C3_OneBookingPerSlot ==
    /\ \A q, r \in queues :
          (q.position = 0 /\ r.position = 0 /\ q.provider_id = r.provider_id
           /\ q.date = r.date /\ q.time = r.time) => q = r
    /\ last.op = "client_book_slot" =>
          /\ last.result \in {"Booked", "SlotConflict"}
          /\ last.result = "Booked" =>
                Holders(last.pid, last.row.date, last.row.time) = {last.row}
          /\ last.result = "SlotConflict" =>
                /\ last.row.id = 0
                /\ Cardinality(Holders(last.pid, last.row.date,
                                       last.row.time)) = 1

\* C3, its case: two clients were shown the same slot; one booked it, and
\* the other, whose keyboard still lists the slot, pressed it and got
\* SlotConflict.
C3_Race ==
    /\ last.op = "client_book_slot" /\ last.result = "SlotConflict"
    /\ kb[last.user].kind = "book"
    /\ kb[last.user].provider_id = last.pid
    /\ kb[last.user].date = last.row.date
    /\ last.row.time \in Range(kb[last.user].slots)
    /\ \E q \in Holders(last.pid, last.row.date, last.row.time) :
          q.user_id # last.user

\* C4: a booking request for a time that a scheduled entry or a busy block
\* of the provider holds on that date when the request arrives is answered
\* SlotConflict, and no table of the store changes.
C4_HeldSlotConflicts ==
    [][\A p \in {r.id : r \in providers} :
          (/\ last'.op = "client_book_slot"
           /\ last'.pid = p
           /\ \/ Holders(p, last'.row.date, last'.row.time) # {}
              \/ Blocks(p, last'.row.date, last'.row.time) # {})
          => /\ last'.result = "SlotConflict"
             /\ UNCHANGED <<providers, services, queues, busy_times,
                            seq>>]_vars

\* C4, its case: the request was refused for a busy block alone, typed by
\* the provider as 9:00 after the client was shown 09:00.
C4_BusyConflict ==
    /\ last.op = "client_book_slot" /\ last.result = "SlotConflict"
    /\ Blocks(last.pid, last.row.date, last.row.time) # {}
    /\ Holders(last.pid, last.row.date, last.row.time) = {}

\* the 17 half-hour marks 09:00, 09:30, ..., 17:00
GridMarks ==
    <<<<"0", "9", ":", "0", "0">>, <<"0", "9", ":", "3", "0">>,
      <<"1", "0", ":", "0", "0">>, <<"1", "0", ":", "3", "0">>,
      <<"1", "1", ":", "0", "0">>, <<"1", "1", ":", "3", "0">>,
      <<"1", "2", ":", "0", "0">>, <<"1", "2", ":", "3", "0">>,
      <<"1", "3", ":", "0", "0">>, <<"1", "3", ":", "3", "0">>,
      <<"1", "4", ":", "0", "0">>, <<"1", "4", ":", "3", "0">>,
      <<"1", "5", ":", "0", "0">>, <<"1", "5", ":", "3", "0">>,
      <<"1", "6", ":", "0", "0">>, <<"1", "6", ":", "3", "0">>,
      <<"1", "7", ":", "0", "0">>>>

\* C5: the slots client_pick_date lists for a provider and a date are the
\* 17 marks 09:00 .. 17:00 in that order without the times held by the
\* provider's scheduled entries and busy blocks of that date; none of the
\* listed times is booked, and the listing is empty, answered NoSlots,
\* exactly when every mark is held.
C5_GridMinusBooked ==
    last.op = "client_pick_date" =>
        LET taken == {t \in Range(GridMarks) :
                         \/ Holders(last.pid, last.row.date, t) # {}
                         \/ Blocks(last.pid, last.row.date, t) # {}}
        IN  /\ last.slots = SelectSeq(GridMarks, LAMBDA t : t \notin taken)
            /\ Range(last.slots) \cap
                   get_booked_slots(last.pid, last.row.date) = {}
            /\ last.result = IF taken = Range(GridMarks) THEN "NoSlots"
                             ELSE "Slots"

\* C5, its case: every mark of the date is blocked and the listing is
\* empty.
C5_NoSlots ==
    /\ last.op = "client_pick_date" /\ last.result = "NoSlots"
    /\ last.slots = <<>>
    /\ Cardinality(get_booked_slots(last.pid, last.row.date)) >= 17

\* the dates a keyboard can list
ListedDates == {IsoFormat(Calendar(n)) : n \in 0..(MaxDay + NDates - 1)}

\* C6: a booking that succeeds stores one new entry, of a listed date and a
\* time of the grid; when a booking of time t of date d at provider p
\* succeeds, and t was among the available slots of (p, d), the available
\* slots of (p, d) after it are those before it without t, one fewer, and
\* the available slots of every other provider and date are what they were.
C6_RoundTrip ==
    [][/\ (last'.op = "client_book_slot" /\ last'.result = "Booked") =>
             /\ last'.row \in queues' \ queues
             /\ last'.row.date \in ListedDates
             /\ last'.row.time \in Range(GridMarks)
       /\ \A p \in {r.id : r \in providers}, d \in ListedDates,
          t \in Range(GridMarks) :
          (/\ last'.op = "client_book_slot" /\ last'.result = "Booked"
           /\ last'.pid = p /\ last'.row.date = d /\ last'.row.time = t
           /\ t \in Range(Available(p, d)))
          => /\ Available(p, d)' =
                    SelectSeq(Available(p, d), LAMBDA x : x # t)
             /\ Len(Available(p, d)') = Len(Available(p, d)) - 1
             /\ \A p2 \in {r.id : r \in providers}, d2 \in ListedDates :
                    <<p2, d2>> # <<p, d>>
                    => Available(p2, d2)' = Available(p2, d2)]_vars

\* C6, its case: a booking succeeded on a date with a busy block, while the
\* provider holds an entry of another date.
C6_Booked ==
    /\ last.op = "client_book_slot" /\ last.result = "Booked"
    /\ last.row \in queues
    /\ last.row.time \notin Range(Available(last.pid, last.row.date))
    /\ \E b \in busy_times :
          b.provider_id = last.pid /\ b.date = last.row.date
    /\ \E q \in Scheduled(last.pid) : q.date # last.row.date

\* C7: unregistering a provider removes the provider, its services, its
\* queue entries and its busy blocks, and leaves every row of every other
\* provider as it was.
C7_CascadeOnUnregister ==
    [][(last'.op = "unregister" /\ last'.result = "Unregistered") =>
          /\ providers' = {p \in providers : p.id # last'.pid}
          /\ services' = {s \in services : s.provider_id # last'.pid}
          /\ queues' = {q \in queues : q.provider_id # last'.pid}
          /\ busy_times' = {b \in busy_times : b.provider_id # last'.pid}
          /\ \A q \in queues' :
                /\ \E p \in providers' : p.id = q.provider_id
                /\ \E v \in services' : v.id = q.service_id]_vars

\* C11: in the listing of show_queue every walk-in comes before every
\* scheduled entry, walk-ins in ascending position and scheduled entries in
\* ascending (date, time).
C11_WalkInsListedFirst ==
    last.op = "show_queue" =>
        \A i, j \in DOMAIN last.slots :
            i < j =>
                LET a == last.slots[i]
                    b == last.slots[j]
                IN  /\ ~ (a.position = 0 /\ b.position > 0)
                    /\ (a.position > 0 /\ b.position > 0)
                           => a.position < b.position
                    /\ (a.position = 0 /\ b.position = 0) => NotLater(a, b)

\* the tables of the store
Store == <<providers, services, queues, busy_times, seq>>

\* C12: a row popped by call_next is out of the queue while the client's
\* notification is still pending; when the notification ends, delivered or
\* failed, the store is left as it is, the popped row stays removed, and the
\* provider is answered with the dispatch of that row.
C12_NotifyAfterPop ==
    [][/\ \A u \in Owners : calling'[u] \cap queues' = {}
       /\ \A u \in Owners :
             (calling'[u] # calling[u] /\ calling'[u] \subseteq calling[u])
             => /\ UNCHANGED Store
                /\ last'.op = "call_next" /\ last'.result = "Dispatched"
                /\ last'.user = u
                /\ calling[u] \ calling'[u] = {last'.row}
                /\ last'.row \notin queues']_vars

\* C12, its case: the notification of a popped row failed while another
\* popped row still waits for its notification and the queue holds a row.
C12_Unreachable ==
    /\ last.op = "call_next" /\ last.result = "Dispatched"
    /\ last.slots = <<>>
    /\ last.row \notin queues
    /\ calling[last.user] # {}
    /\ queues # {}

\* C13: add_service_save for a name the provider already has answers
\* DuplicateService and leaves the services as they are; for any other name
\* it answers Added and adds exactly one service, of that provider and that
\* name; no provider ever has two services of one name.
C13_ServiceNamesUnique ==
    [][/\ \A v, w \in services' :
             (v.provider_id = w.provider_id /\ v.name = w.name) => v = w
       /\ (last'.op = "add_service_save" /\ last'.pid # 0) =>
             IF \E v \in services : /\ v.provider_id = last'.pid
                                    /\ v.name = last'.row.name
             THEN /\ last'.result = "DuplicateService"
                  /\ services' = services
             ELSE /\ last'.result = "Added"
                  /\ Cardinality(services') = Cardinality(services) + 1
                  /\ \E r \in services' \ services :
                        /\ services' = services \cup {r}
                        /\ r.provider_id = last'.pid
                        /\ r.name = last'.row.name]_vars

\* C13, its case: a name is refused to a provider who has it while another
\* provider holds a service of the same name.
C13_Duplicate ==
    /\ last.op = "add_service_save" /\ last.result = "DuplicateService"
    /\ \E v, w \in services :
          /\ v.provider_id = last.pid /\ w.provider_id # last.pid
          /\ v.name = last.row.name /\ w.name = last.row.name

\* C14: clear_queue of a provider removes every queue row of that provider,
\* walk-in or scheduled, and no other row: the queue rows of the other
\* providers, and the providers, services and busy blocks of all, stay.
C14_ClearFrame ==
    [][(last'.op = "clear_queue" /\ last'.result = "Cleared") =>
          /\ queues' = {q \in queues : q.provider_id # last'.pid}
          /\ \A q \in queues' : q.provider_id # last'.pid
          /\ UNCHANGED <<providers, services, busy_times, seq>>]_vars

\* C14, its case: a provider with a busy block cleared a queue of two rows
\* or more, and the other provider's walk-in is still in the store.
C14_Cleared ==
    /\ last.op = "clear_queue" /\ last.result = "Cleared"
    /\ seq.queues >= Cardinality(queues) + 2
    /\ \E b \in busy_times : b.provider_id = last.pid
    /\ \E q \in queues : q.provider_id # last.pid

\* C15: every queue row is a walk-in, with a position above 0 and neither
\* date nor time, or a scheduled entry, with position 0 and both a date and
\* a time.
C15_TwoModes ==
    \A q \in queues :
        \/ q.position > 0 /\ q.date = NULL /\ q.time = NULL
        \/ /\ q.position = 0
           /\ q.date # NULL /\ q.date # <<>>
           /\ q.time # NULL /\ q.time # <<>>

\* C15, its case: a provider's queue holds a walk-in and a scheduled entry.
C15_BothModes ==
    \E q, r \in queues :
        /\ q.provider_id = r.provider_id
        /\ q.position > 0 /\ r.position = 0
        /\ r.id > q.id

\* C16: a walk-in enqueued for a provider gets position 1 when the provider
\* has no walk-in and one more than the highest position of the provider's
\* walk-ins otherwise, whatever scheduled entries the provider has and
\* whatever the other providers hold; the row is the only change of the
\* queue, so the provider's scheduled entries stay as they are.
C16_NextPosition ==
    [][(last'.op = "add_to_queue" /\ last'.result = "Enqueued") =>
          LET mine == {q \in queues : q.provider_id = last'.pid
                                      /\ q.position > 0}
          IN  /\ mine = {} => last'.row.position = 1
              /\ mine # {} =>
                    /\ \E q \in mine : last'.row.position = q.position + 1
                    /\ \A q \in mine : q.position < last'.row.position
              /\ queues' = queues \cup {last'.row}
              /\ last'.row \notin queues
              /\ {q \in queues' : q.position = 0} =
                     {q \in queues : q.position = 0}]_vars

\* C16, its case: a walk-in got position 1 at a provider who holds a
\* scheduled entry, while another provider holds a walk-in.
C16_Independent ==
    /\ last.op = "add_to_queue" /\ last.result = "Enqueued"
    /\ last.row.position = 1
    /\ \E q \in queues : q.provider_id = last.pid /\ q.position = 0
    /\ \E q \in queues : q.provider_id # last.pid /\ q.position > 0

\* C17: whatever the order in which walk-in enqueues, bookings, call_next
\* and clear_queue requests of a provider are handled, no two walk-ins of
\* the provider that are stored together have the same position.
C17_PositionsDistinct ==
    \A q, r \in queues :
        (q.provider_id = r.provider_id /\ q.position > 0
         /\ q.position = r.position) => q = r

\* C17, its case: two walk-ins of a provider are stored, the second
\* enqueued after the provider's first walk-in had been popped or cleared.
C17_AfterPop ==
    \E q, r \in queues :
        /\ q.provider_id = r.provider_id
        /\ q.position > 1 /\ r.position > q.position
        /\ \A w \in WalkIns(q.provider_id) : w.position >= q.position

\* C18: a booking request whose provider is no longer in the store is
\* answered ProviderNotFound or ServiceNotFound, and adds no queue row.
C18_StaleBookingTyped ==
    (/\ last.op = "client_book_slot"
     /\ ~ \E p \in providers : p.id = last.pid)
    => /\ last.result \in {"ProviderNotFound", "ServiceNotFound"}
       /\ last.row.id = 0

\* C19: a call_next that dispatches removes exactly the queue row it
\* returns, a row of the caller's provider; the listings of show_queue and
\* get_queue no longer hold it and hold every other row they held; the
\* providers, services and busy blocks stay as they are.  A call_next that
\* answers EmptyQueue changes no table.
C19_PopFrame ==
    [][\A p \in {r.id : r \in providers} :
          (last'.op = "call_next" /\ last'.pid = p) =>
             /\ last'.result \in {"Dispatched", "EmptyQueue"}
             /\ last'.result = "Dispatched" =>
                   /\ last'.row \in queues
                   /\ last'.row.provider_id = p
                   /\ queues' = queues \ {last'.row}
                   /\ Cardinality(queues') = Cardinality(queues) - 1
                   /\ Range(ListAll(p)') = Range(ListAll(p)) \ {last'.row}
                   /\ Range(get_queue(p)') =
                          Range(get_queue(p)) \ {last'.row}
                   /\ UNCHANGED <<providers, services, busy_times, seq>>
             /\ last'.result = "EmptyQueue" => UNCHANGED Store]_vars

\* C19, its case: a provider with a busy block dispatched one row of a
\* queue that still holds an entry of the same client, while the other
\* provider also holds a row.
C19_Dispatched ==
    /\ last.op = "call_next" /\ last.result = "Dispatched"
    /\ \E b \in busy_times : b.provider_id = last.pid
    /\ \E q \in queues :
          q.provider_id = last.pid /\ q.user_id = last.row.user_id
    /\ \E q \in queues : q.provider_id # last.pid

\* C20: every call_next of a provider whose queue holds a row dispatches
\* one row of that queue and removes it, so the queue is one row shorter,
\* and a call_next on an empty queue answers EmptyQueue: n rows take n
\* calls, each a different row, and the call after them answers
\* EmptyQueue.  When the provider keeps calling and no more rows come in,
\* a queue that holds rows is eventually empty and answered EmptyQueue.
C20_Drains ==
    /\ [][\A p \in {r.id : r \in providers} :
             (last'.op = "call_next" /\ last'.pid = p) =>
                IF QueueOf(p) # {}
                THEN /\ last'.result = "Dispatched"
                     /\ last'.row \in QueueOf(p)
                     /\ QueueOf(p)' = QueueOf(p) \ {last'.row}
                     /\ Cardinality(QueueOf(p)') = Cardinality(QueueOf(p)) - 1
                ELSE /\ last'.result = "EmptyQueue"
                     /\ UNCHANGED queues]_vars
    /\ (QueueOf(1) # {}) ~>
           (/\ last.op = "call_next" /\ last.result = "EmptyQueue"
            /\ QueueOf(1) = {})

\* C20, its case: a queue that has held three rows, a scheduled entry the
\* last of them, is empty and call_next has answered EmptyQueue.
C20_Drained ==
    /\ last.op = "call_next" /\ last.result = "EmptyQueue"
    /\ queues = {}
    /\ seq.queues >= 3
    /\ kb[3] = NoKeyboard

\* C21: a removeBusyBlock request deletes no busy block of a provider that
\* the user who issued it does not own, whatever busy-block id and provider
\* id the request carries
C21_DeleteOwnBlocksOnly ==
    [][last'.op = "admin_delete_busy" =>
          \A b \in busy_times \ busy_times' :
              get_provider_owner(b.provider_id) = last'.user]_vars

\* C22: in every reachable state each queue entry references a service
\* that exists and belongs to the provider of the entry
C22_ServiceOfEntryProvider ==
    \A q \in queues :
        \E s \in services :
            s.id = q.service_id /\ s.provider_id = q.provider_id

\* C23: the busy-block round trip.  A busy row added for a grid time t of a
\* date d takes t out of the available slots of (p, d), and a booking of a
\* time that a busy row holds is answered SlotConflict; the removal of a
\* busy row for (d, t), when no scheduled entry of p holds (d, t), puts t
\* back among the available slots of (p, d), whatever busy rows were added
\* before.
C23_BusyRoundTrip ==
    /\ [][\A b \in busy_times' \ busy_times :
             b.time \notin Range(Available(b.provider_id, b.date)')]_vars
    /\ [][(/\ last'.op = "client_book_slot"
           /\ \E b \in busy_times :
                 /\ b.provider_id = last'.pid
                 /\ b.date = last'.row.date
                 /\ b.time = last'.row.time)
          => last'.result = "SlotConflict" /\ UNCHANGED queues]_vars
    /\ [][\A b \in busy_times \ busy_times' :
             (/\ last'.op = "admin_delete_busy"
              /\ b.time \in Range(Slots)
              /\ Holders(b.provider_id, b.date, b.time) = {})
             => b.time \in Range(Available(b.provider_id, b.date)')]_vars

====
